---- MODULE Spec2Model ----
(***************************************************************************)
(* FluxAgent: the workflow orchestration core.                             *)
(*                                                                         *)
(*   app/graph/workflow.py          AgentWorkflow (graph, nodes, routers,  *)
(*                                  process_message, stream_process_message)*)
(*   app/agents/supervisor_agent.py SupervisorAgent.decide_action          *)
(*   app/agents/research_agent.py   ResearchAgent.research                 *)
(*   app/graph/state.py             AgentState                             *)
(*                                                                         *)
(* Texts on which the code computes (user input, the supervisor's LLM      *)
(* reply) are sequences of one-character strings, so that lower(), strip() *)
(* and the substring test are computed.  Any other text is a sequence of   *)
(* opaque pieces; an f-string is the concatenation of its pieces and the   *)
(* empty text is << >>.                                                    *)
(***************************************************************************)
EXTENDS Naturals, Sequences, FiniteSets, TLC

VARIABLES pc, mode, call, tools, memory, state, trace, out, result, hist, locals,
          turns, store

vars == <<pc, mode, call, tools, memory, state, trace, out, result, hist, locals,
          turns, store>>

\* the variables of the one-turn specification, and those of the
\* specification with two concurrent turns
svars == <<pc, mode, call, memory, state, trace, out, result, hist, locals>>
cvars == <<turns, store>>

-----------------------------------------------------------------------------
(* Python values *)

\* None for the Optional[str] fields
None == "None"

\* None for the Optional[Dict] field research_data; a dict d is <<d>>
NoData == << >>

\* a message that has not been given an id yet
NoId == 0

-----------------------------------------------------------------------------
(* Bounds *)

\* the largest number of tool invocations the planning reply may request
MaxToolCalls == 2

-----------------------------------------------------------------------------
(* str.lower, str.strip, the `in` substring test *)

LowerChar(c) ==
    CASE c = "A" -> "a" [] c = "E" -> "e" [] c = "H" -> "h" [] c = "L" -> "l"
      [] c = "N" -> "n" [] c = "O" -> "o" [] c = "P" -> "p" [] c = "R" -> "r"
      [] c = "S" -> "s" [] c = "T" -> "t" [] c = "V" -> "v" [] c = "D" -> "d"
      [] OTHER -> c

lower(s) == [i \in 1..Len(s) |-> LowerChar(s[i])]

Whitespace == {" ", "\n", "\t"}

strip(s) ==
    LET keep == {i \in 1..Len(s) : s[i] \notin Whitespace}
    IN  IF keep = {} THEN << >>
        ELSE LET first == CHOOSE i \in keep : \A j \in keep : i <= j
                 last  == CHOOSE i \in keep : \A j \in keep : j <= i
             IN  SubSeq(s, first, last)

\* Python's `sub in s`
Contains(sub, s) ==
    \E i \in 0..Len(s) :
        /\ i + Len(sub) <= Len(s)
        /\ SubSeq(s, i + 1, i + Len(sub)) = sub

-----------------------------------------------------------------------------
(* SupervisorAgent *)

\* the two tokens the classification reply is validated against
TokResearch == <<"r","e","s","e","a","r","c","h">>
TokRespond  == <<"r","e","s","p","o","n","d">>

research_keywords == <<
    <<"s","e","a","r","c","h">>,
    <<"f","i","n","d">>,
    <<"r","e","s","e","a","r","c","h">>,
    <<"l","a","t","e","s","t">>,
    <<"c","u","r","r","e","n","t">>,
    <<"r","e","c","e","n","t">>,
    <<"n","e","w","s">>,
    <<"w","h","a","t"," ","i","s">>,
    <<"i","n","f","o","r","m","a","t","i","o","n">>,
    <<"d","a","t","a">>,
    <<"s","t","a","t","i","s","t","i","c","s">>,
    <<"c","o","m","p","a","r","e">>,
    <<"v","e","r","s","u","s">>,
    <<"v","s">>,
    <<"t","r","e","n","d","s">>,
    <<"d","e","v","e","l","o","p","m","e","n","t","s">>
>>

\* a keyword match against the input as typed, not lower-cased
_fallback_decision_case_sensitive(user_input) ==
    IF \E k \in 1..Len(research_keywords) :
           Contains(research_keywords[k], user_input)
    THEN "research"
    ELSE "respond"

_fallback_decision(user_input) ==
    LET user_lower == lower(user_input)
    IN  IF \E k \in 1..Len(research_keywords) :
               Contains(research_keywords[k], user_lower)
        THEN "research"
        ELSE "respond"

\* decide_action whose exception handler takes no fallback decision
decide_action_no_fallback(st, llm) ==
    IF llm.kind = "raise"
    THEN [st EXCEPT !.workflow_status = "error"]
    ELSE LET user_input == st.user_input
             decision == lower(strip(llm.content))
             next_action ==
                 IF decision = TokResearch THEN "research"
                 ELSE IF decision = TokRespond THEN "respond"
                 ELSE _fallback_decision(user_input)
         IN  [st EXCEPT
                 !.next_action = next_action,
                 !.current_agent = "supervisor",
                 !.working_memory = [supervisor_decision |-> <<
                     [decision |-> next_action,
                      reasoning |-> <<"Analyzed request: '">> \o user_input
                                        \o <<"' -> ", next_action>>,
                      user_input |-> user_input] >>]]

\* decide_action whose exception handler defaults to research
decide_action_default_research(st, llm) ==
    IF llm.kind = "raise"
    THEN [st EXCEPT !.next_action = "research",
                    !.workflow_status = "error"]
    ELSE LET user_input == st.user_input
             decision == lower(strip(llm.content))
             next_action ==
                 IF decision = TokResearch THEN "research"
                 ELSE IF decision = TokRespond THEN "respond"
                 ELSE _fallback_decision(user_input)
         IN  [st EXCEPT
                 !.next_action = next_action,
                 !.current_agent = "supervisor",
                 !.working_memory = [supervisor_decision |-> <<
                     [decision |-> next_action,
                      reasoning |-> <<"Analyzed request: '">> \o user_input
                                        \o <<"' -> ", next_action>>,
                      user_input |-> user_input] >>]]

\* decide_action that lets a keyword of the input overrule the reply
decide_action_keywords_first(st, llm) ==
    IF llm.kind = "raise"
    THEN [st EXCEPT !.next_action = _fallback_decision(st.user_input),
                    !.workflow_status = "error"]
    ELSE LET user_input == st.user_input
             decision == lower(strip(llm.content))
             next_action ==
                 IF _fallback_decision(user_input) = "research" THEN "research"
                 ELSE IF decision = TokResearch THEN "research"
                 ELSE "respond"
         IN  [st EXCEPT
                 !.next_action = next_action,
                 !.current_agent = "supervisor",
                 !.working_memory = [supervisor_decision |-> <<
                     [decision |-> next_action,
                      reasoning |-> <<"Analyzed request: '">> \o user_input
                                        \o <<"' -> ", next_action>>,
                      user_input |-> user_input] >>]]

\* llm is what `await chain.ainvoke({})` does: a reply with a content, or an
\* exception with message llm.error.
decide_action(st, llm) ==
    IF llm.kind = "raise"
    THEN [st EXCEPT !.next_action = _fallback_decision(st.user_input),
                    !.workflow_status = "error"]
    ELSE LET user_input == st.user_input
             decision == lower(strip(llm.content))
             next_action ==
                 IF decision = TokResearch THEN "research"
                 ELSE IF decision = TokRespond THEN "respond"
                 ELSE _fallback_decision(user_input)
         IN  [st EXCEPT
                 !.next_action = next_action,
                 !.current_agent = "supervisor",
                 !.working_memory = [supervisor_decision |-> <<
                     [decision |-> next_action,
                      reasoning |-> <<"Analyzed request: '">> \o user_input
                                        \o <<"' -> ", next_action>>,
                      user_input |-> user_input] >>]]

should_continue(st) ==
    IF st.workflow_status = "error" THEN "end"
    ELSE IF st.next_action = "research" THEN "research"
    ELSE IF st.next_action = "respond" THEN "respond"
    ELSE "end"

-----------------------------------------------------------------------------
(* Messages.  An entry of `messages` is either a role/content dict, as the   *)
(* workflow's nodes append it, or a message object (HumanMessage, AIMessage),*)
(* as the research agent appends it and as the add_messages reducer of the   *)
(* `messages` channel stores every entry.                                    *)

DictMessage(role, content) ==
    [kind |-> "dict", role |-> role, content |-> content, id |-> NoId]

AIMessage(content) ==
    [kind |-> "object", role |-> "assistant", content |-> content, id |-> NoId]

\* the reducer annotated on AgentState.messages: both sides are coerced to
\* message objects, a message without an id gets a fresh one, a message of
\* `right` whose id is already in `left` replaces that one in place, and any
\* other message of `right` is appended.
add_messages(left, right) ==
    LET known(m) == m.id # NoId /\ \E i \in 1..Len(left) : left[i].id = m.id
        fresh == SelectSeq(right, LAMBDA m : ~known(m))
        replaced ==
            [i \in 1..Len(left) |->
                IF \E j \in 1..Len(right) : right[j].id = left[i].id
                THEN LET j == CHOOSE k \in 1..Len(right) :
                                  /\ right[k].id = left[i].id
                                  /\ \A l \in 1..Len(right) :
                                        right[l].id = left[i].id => l <= k
                     IN  [right[j] EXCEPT !.kind = "object"]
                ELSE left[i]]
        appended ==
            [k \in 1..Len(fresh) |->
                [fresh[k] EXCEPT !.kind = "object", !.id = Len(left) + k]]
    IN  replaced \o appended

-----------------------------------------------------------------------------
(* ResearchAgent *)

\* One entry of research_results: {tool, query, result} when the tool
\* returned, {tool, query, error} when it raised; `key` is the name of the
\* third key.
ToolEntry(tool_call, outcome) ==
    [tool  |-> tool_call.name,
     query |-> tool_call.args,
     key   |-> IF outcome.kind = "raise" THEN "error" ELSE "result",
     value |-> IF outcome.kind = "raise" THEN outcome.error ELSE outcome.content]

\* a loop over the tool calls that the first raising tool ends
research_results_abort(tool_calls, outcomes, registry) ==
    LET found(i) == \E t \in 1..Len(registry) : registry[t] = tool_calls[i].name
        executed == SelectSeq([i \in 1..Len(tool_calls) |-> i], found)
        raising == {k \in 1..Len(executed) : outcomes[executed[k]].kind = "raise"}
        upto == IF raising = {} THEN Len(executed)
                ELSE CHOOSE k \in raising : \A l \in raising : k <= l
    IN  [k \in 1..upto |->
            ToolEntry(tool_calls[executed[k]], outcomes[executed[k]])]

\* a loop over the tool calls that the first unknown tool name ends
research_results_stop_at_unknown(tool_calls, outcomes, registry) ==
    LET found(i) == \E t \in 1..Len(registry) : registry[t] = tool_calls[i].name
        unknown == {i \in 1..Len(tool_calls) : ~found(i)}
        upto == IF unknown = {} THEN Len(tool_calls)
                ELSE (CHOOSE i \in unknown : \A j \in unknown : i <= j) - 1
    IN  [k \in 1..upto |-> ToolEntry(tool_calls[k], outcomes[k])]

\* the loop over response.tool_calls; registry is self.tools (tool names) and
\* outcomes[i] is what the i-th requested call does if it is executed.
research_results(tool_calls, outcomes, registry) ==
    LET found(i) == \E t \in 1..Len(registry) : registry[t] = tool_calls[i].name
        executed == SelectSeq([i \in 1..Len(tool_calls) |-> i], found)
    IN  [k \in 1..Len(executed) |->
            ToolEntry(tool_calls[executed[k]], outcomes[executed[k]])]

ToolNames(results) == [k \in 1..Len(results) |-> results[k].tool]

\* research that keeps the raw results when the synthesis call fails
research_partial(st, plan, outcomes, synth, registry) ==
    LET user_query == st.user_input
        failed == plan.kind = "raise" \/ synth.kind = "raise"
        e == IF plan.kind = "raise" THEN plan.error ELSE synth.error
        results == research_results(plan.tool_calls, outcomes, registry)
    IN  IF failed
        THEN [st EXCEPT
                 !.research_data =
                     IF plan.kind = "raise" THEN @
                     ELSE << [query |-> user_query, raw_results |-> results,
                              synthesis |-> << >>] >>,
                 !.messages = Append(@, AIMessage(<<"Research failed: ">> \o e)),
                 !.workflow_status = "error"]
        ELSE [st EXCEPT
                 !.research_data = << [query |-> user_query,
                                       raw_results |-> results,
                                       synthesis |-> synth.content] >>,
                 !.messages = Append(@, AIMessage(synth.content)),
                 !.tools_used = @ \o ToolNames(results),
                 !.current_agent = "research"]

\* plan is the tool-planning LLM call, synth the synthesis LLM call; each is
\* a reply or an exception.
research(st, plan, outcomes, synth, registry) ==
    LET user_query == st.user_input
        failed == plan.kind = "raise" \/ synth.kind = "raise"
        e == IF plan.kind = "raise" THEN plan.error ELSE synth.error
    IN  IF failed
        THEN [st EXCEPT
                 !.messages = Append(@, AIMessage(<<"Research failed: ">> \o e)),
                 !.workflow_status = "error"]
        ELSE LET results == research_results(plan.tool_calls, outcomes, registry)
             IN  [st EXCEPT
                     !.research_data = << [query |-> user_query,
                                           raw_results |-> results,
                                           synthesis |-> synth.content] >>,
                     !.messages = Append(@, AIMessage(synth.content)),
                     !.tools_used = @ \o ToolNames(results),
                     !.current_agent = "research"]

-----------------------------------------------------------------------------
(* The state the caller gave, after the call.  `state.copy()` is a shallow   *)
(* copy: the copy's working_memory, messages and tools_used are the input's *)
(* own dict and lists, so what the agent stores or appends through the copy *)
(* is stored in the input state as well.                                    *)

decide_action_given(st, llm) ==
    IF llm.kind = "raise" THEN st
    ELSE [st EXCEPT !.working_memory = decide_action(st, llm).working_memory]

research_given(st, plan, outcomes, synth, registry) ==
    LET updated_state == research(st, plan, outcomes, synth, registry)
    IN  [st EXCEPT !.messages = updated_state.messages,
                   !.tools_used = updated_state.tools_used]

\* the fields in which two state values differ
ModifiedFields(before, after) == {f \in DOMAIN before : before[f] # after[f]}

-----------------------------------------------------------------------------
(* AgentWorkflow: nodes and routers *)

\* a supervisor node that starts research_data as an empty record
_supervisor_node_stub_data(st, llm) ==
    [decide_action(st, llm) EXCEPT
        !.research_data = << [query |-> st.user_input, raw_results |-> << >>,
                              synthesis |-> << >>] >>]

\* decide_action catches every exception itself and its handler cannot raise
\* on a str user_input, so the node's own handler is never entered.
_supervisor_node(st, llm) == decide_action(st, llm)

\* a research node that puts its message in front of the transcript
_research_node_message_first(st, plan, outcomes, synth, registry) ==
    LET returned == research(st, plan, outcomes, synth, registry)
        n == Len(returned.messages)
    IN  [returned EXCEPT !.messages =
            <<returned.messages[n]>> \o SubSeq(returned.messages, 1, n - 1)]

\* a research node that returns its state without the timestamp field
_research_node_drops_timestamp(st, plan, outcomes, synth, registry) ==
    LET returned == research(st, plan, outcomes, synth, registry)
    IN  [f \in DOMAIN returned \ {"timestamp"} |-> returned[f]]

\* a research node that files the raw results under tool_results
_research_node_tool_results(st, plan, outcomes, synth, registry) ==
    LET returned == research(st, plan, outcomes, synth, registry)
    IN  IF returned.research_data = NoData THEN returned
        ELSE [returned EXCEPT !.tool_results =
                 {returned.research_data[1].raw_results[k].tool :
                      k \in 1..Len(returned.research_data[1].raw_results)}]

\* research catches every exception itself, likewise.
_research_node(st, plan, outcomes, synth, registry) ==
    research(st, plan, outcomes, synth, registry)

\* llm is the direct `llm.ainvoke` call; it is issued only on the else branch.
_respond_node(st, llm) ==
    LET direct == st.research_data = NoData
        raised == direct /\ llm.kind = "raise"
    IN  IF raised
        THEN [st EXCEPT
                 !.workflow_status = "error",
                 !.messages = Append(@, DictMessage("assistant",
                                  <<"Response generation error: ">> \o llm.error))]
        ELSE LET appended ==
                     IF ~direct
                     THEN LET synthesis == st.research_data[1].synthesis
                          IN  IF synthesis # << >>
                              THEN <<DictMessage("assistant", synthesis)>>
                              ELSE << >>
                     ELSE <<DictMessage("assistant", llm.content)>>
             IN  [st EXCEPT
                     !.messages = @ \o appended,
                     !.workflow_status = "completed",
                     !.current_agent = "respond"]

\* a respond node that issues its direct call on both branches
RespondCallsLLM_always(st) == TRUE

\* whether _respond_node issues the direct `llm.ainvoke` call: on the else
\* branch of `if state.get("research_data")`
RespondCallsLLM(st) == st.research_data = NoData

_route_supervisor(st) ==
    IF st.next_action = "research" THEN "research"
    ELSE IF st.next_action = "respond" THEN "respond"
    ELSE "end"

\* a router that sends an errored research back to the research node
_route_after_research_retry(st) ==
    IF st.workflow_status = "error" THEN "research" ELSE "respond"

\* a router that hands a finished research back to the supervisor
_route_after_research_supervisor(st) ==
    IF st.workflow_status = "error" THEN "end" ELSE "supervisor"

_route_after_research(st) ==
    IF st.workflow_status = "error" THEN "end" ELSE "respond"

\* the state built at the entry of process_message / stream_process_message
initial_state(user_input, conversation_id, user_id) ==
    [messages         |-> <<DictMessage("user", user_input)>>,
     user_input       |-> user_input,
     next_action      |-> None,
     research_data    |-> NoData,
     plan             |-> None,
     tools_used       |-> << >>,
     tool_results     |-> {},
     conversation_id  |-> conversation_id,
     user_id          |-> user_id,
     current_agent    |-> "supervisor",
     workflow_status  |-> "in_progress",
     working_memory   |-> [supervisor_decision |-> << >>],
     long_term_memory |-> None,
     timestamp        |-> None,
     session_data     |-> {}]

\* The compiled graph writes a full state value (the input of the run, or what
\* a node returned) to the channels: `messages` goes through its reducer,
\* every other field takes the written value.  saved is the messages channel
\* before the write.
WriteState(saved, written) ==
    [written EXCEPT !.messages = add_messages(saved, written.messages)]

\* a run whose input carries only the new message and the user input, so
\* that every other field resumes from the checkpoint
ResumeThread_partial_input(checkpoint, input) ==
    IF checkpoint = << >> THEN WriteState(<< >>, input)
    ELSE [checkpoint[1] EXCEPT
             !.messages = add_messages(@, input.messages),
             !.user_input = input.user_input]

\* `self.graph.ainvoke(initial_state, config)` / `astream` on a thread: the
\* channels are restored from the thread's checkpoint (<< >> if it has none)
\* and the input, which has all fields of the state, is written to them
ResumeThread(checkpoint, input) ==
    WriteState(IF checkpoint = << >> THEN << >> ELSE checkpoint[1].messages,
               input)

-----------------------------------------------------------------------------
(* AgentWorkflow: the two entry points *)

\* a configuration that runs every turn on the thread of the default id
ThreadKey_default(conversation_id) == "default"

\* config["configurable"]["thread_id"]: the thread of the checkpointer on
\* which the graph run of a turn loads and saves its checkpoints
ThreadKey(conversation_id) == conversation_id

\* str(e) of the AttributeError that `latest_message.get` raises on a message
\* object
NoGetAttribute == <<"'AIMessage' object has no attribute 'get'">>

\* a handler that reports the default conversation id
process_message_default_id(e, conversation_id) ==
    [raised |-> FALSE,
     value  |-> [response        |-> <<"Workflow error: ">> \o e,
                 status          |-> "error",
                 tools_used      |-> << >>,
                 research_data   |-> NoData,
                 conversation_id |-> "default"]]

\* process_message whose handler lets the exception through
process_message_reraise(e, conversation_id) ==
    [raised |-> TRUE,
     value  |-> [response        |-> <<"Workflow error: ">> \o e,
                 status          |-> "error",
                 tools_used      |-> << >>,
                 research_data   |-> NoData,
                 conversation_id |-> conversation_id]]

\* the except branch of process_message
process_message_except(e, conversation_id) ==
    [raised |-> FALSE,
     value  |-> [response        |-> <<"Workflow error: ">> \o e,
                 status          |-> "error",
                 tools_used      |-> << >>,
                 research_data   |-> NoData,
                 conversation_id |-> conversation_id]]

\* process_message after `await self.graph.ainvoke(...)` returned final_state.
\* `latest_message.get("content", "")` is a dict method: on a message object
\* it raises AttributeError, which the except branch of process_message
\* catches.
process_message_return(final_state, conversation_id) ==
    LET messages == final_state.messages
        latest_message ==
            IF messages # << >> THEN messages[Len(messages)]
            ELSE DictMessage("assistant", <<"No response generated">>)
    IN  IF latest_message.kind = "object"
        THEN process_message_except(NoGetAttribute, conversation_id)
        ELSE [raised |-> FALSE,
              value  |-> [response        |-> latest_message.content,
                          status          |-> final_state.workflow_status,
                          tools_used      |-> final_state.tools_used,
                          research_data   |-> final_state.research_data,
                          conversation_id |-> conversation_id]]

\* a stream element that carries the state without the node's name
NodeChunk_unkeyed(node, update) == [key |-> "state", value |-> update]

\* one element of the stream: {<node name>: <what the node returned>}
NodeChunk(node, update) == [key |-> node, value |-> update]

\* a handler that yields the error element and lets the exception through
stream_except_reraise(yielded, e) ==
    [raised |-> TRUE,
     out    |-> Append(yielded, [key |-> "error", value |-> e])]

\* the except branch of stream_process_message: yield {"error": str(e)}
stream_except(yielded, e) ==
    [raised |-> FALSE,
     out    |-> Append(yielded, [key |-> "error", value |-> e])]

\* one server-sent event of POST /chat/stream (StreamResponse)
StreamResponse(type, content) == [type |-> type, content |-> content]

\* stream_chat.generate_stream over the elements that stream_process_message
\* yielded: an error element is sent as an "error" event and the loop goes
\* on; a node element is sent as a "message" event when the last message of
\* the node's state is a dict, as a "status" event when the state has no
\* messages, and is skipped (`continue`) otherwise; after the loop the
\* "complete" event is sent.  If the generator raised e instead of ending,
\* the except branch sends an "error" event.
generate_stream(chunks, raised, e) ==
    LET formatted ==
            [i \in 1..Len(chunks) |->
               IF chunks[i].key = "error"
               THEN StreamResponse("error", chunks[i].value)
               ELSE LET node_data == chunks[i].value
                    IN  IF "messages" \in DOMAIN node_data
                        THEN LET messages == node_data.messages
                             IN  IF messages # << >>
                                    /\ messages[Len(messages)].kind = "dict"
                                 THEN StreamResponse("message",
                                          messages[Len(messages)].content)
                                 ELSE StreamResponse("continue", << >>)
                        ELSE StreamResponse("status", <<chunks[i].key>>)]
        sent == SelectSeq(formatted, LAMBDA r : r.type # "continue")
    IN  Append(sent, IF raised THEN StreamResponse("error", e)
                     ELSE StreamResponse("complete", << >>))

-----------------------------------------------------------------------------
(* Inputs *)

Hello       == <<"H","e","l","l","o">>
TellMeAJoke == <<"T","e","l","l"," ","m","e"," ","a"," ","j","o","k","e">>
LatestNews  == <<"L","A","T","E","S","T"," ","n","e","w","s">>
TVs         == <<"T","V","s">>

UserInputs == {Hello, TellMeAJoke, LatestNews, TVs}

ConversationIds == {"c1"}
UserIds == {"u1"}

\* str(e) of an exception raised by a collaborator (LLM client, tool, graph
\* engine); the message may be empty
Errors == {<<"timeout">>, << >>}

Reply(content) == [kind |-> "reply", content |-> content, error |-> << >>]
Raise(e)       == [kind |-> "raise", content |-> << >>, error |-> e]
NotCalled      == [kind |-> "none", content |-> << >>, error |-> << >>]

\* what the supervisor's classification call may do
SupervisorLLM ==
    {Reply(TokResearch),
     Reply(<<" ","R","e","s","p","o","n","d","\n">>),
     Reply(<<"n","o"," ","i","d","e","a">>)}
    \cup {Raise(e) : e \in Errors}

\* the tool names the planning reply may request; "calculator" is not
\* registered with the research agent
RequestedTools == {"web_search", "tavily_search", "calculator"}

ToolCalls ==
    UNION {[1..n -> {[name |-> t, args |-> <<"q">>] : t \in RequestedTools}]
           : n \in 0..MaxToolCalls}

PlanLLM ==
    {[kind |-> "reply", tool_calls |-> tc, error |-> << >>] : tc \in ToolCalls}
    \cup {[kind |-> "raise", tool_calls |-> << >>, error |-> e] : e \in Errors}

ToolOutcomes == {Reply(<<"found">>)} \cup {Raise(e) : e \in Errors}

\* the synthesis may be empty
SynthesisLLM == {Reply(<<"synthesis">>), Reply(<< >>)} \cup {Raise(e) : e \in Errors}

RespondLLM == {Reply(<<"answer">>)} \cup {Raise(e) : e \in Errors}

\* get_web_search_tools(): web_search, and tavily_search when a key is set
Registries == {<<"web_search">>, <<"web_search", "tavily_search">>}

-----------------------------------------------------------------------------
(* State *)

Nodes == {"supervisor", "research", "respond"}

\* research is suspended at a tool call or at the synthesis call
InResearch == {"research_tools", "research_synth"}

\* the thread of conversation "c1" in the MemorySaver after an earlier turn
\* ("Hello", answered directly)
EarlierTurn ==
    LET s0 == WriteState(<< >>, initial_state(Hello, "c1", "u1"))
        s1 == WriteState(s0.messages, _supervisor_node(s0, Reply(TokRespond)))
    IN  WriteState(s1.messages, _respond_node(s1, Reply(<<"answer">>)))

NoLocals ==
    [response |-> [kind |-> "none", tool_calls |-> << >>, error |-> << >>],
     outcomes |-> << >>,
     synthesis_response |-> NotCalled]

NoHistory ==
    [sup |-> "none", decision |-> << >>, plan |-> "none", tool_calls |-> << >>,
     outcomes |-> << >>, synth |-> "none", respond |-> "none", graph |-> "none",
     error |-> << >>, calls |-> << >>, given |-> << >>]

\* Two concurrent turns: turn 1 is a call for conversation "c1", turn 2 a
\* call for conversation "c2".
Turns == {1, 2}

ConversationOf(t) == IF t = 1 THEN "c1" ELSE "c2"

ThreadIds == {"c1", "c2", "default"}

\* the MemorySaver before the two turns: conversation "c1" has had an earlier
\* turn, the other threads have no checkpoint
InitialStore == [c \in ThreadIds |-> IF c = "c1" THEN <<EarlierTurn>> ELSE << >>]

\* what the collaborators have replied to a turn: the supervisor's, the
\* planning, the synthesis and the direct LLM call, each tool call, and the
\* failure of the graph run
NoReplies ==
    [sup |-> NotCalled,
     plan |-> [kind |-> "none", tool_calls |-> << >>, error |-> << >>],
     outcomes |-> << >>,
     synth |-> NotCalled,
     respond |-> NotCalled,
     graph |-> NotCalled]

NoTurn(t) ==
    [pc |-> "idle", mode |-> "none",
     call |-> [user_input |-> << >>, conversation_id |-> ConversationOf(t),
               user_id |-> "u1"],
     state |-> initial_state(<< >>, ConversationOf(t), "u1"),
     trace |-> << >>, out |-> << >>, result |-> << >>,
     replies |-> NoReplies]

\* pc      where the turn is: "idle"; the node to run next; inside research,
\*         "research_tools" (in the loop over the requested tool calls) and
\*         "research_synth" (before the synthesis call); "end" (the graph
\*         reached END); "returned" (the entry point returned / the
\*         generator ended); "raised" (an exception reached the caller)
\* mode    "invoke" for process_message, "stream" for stream_process_message
\* call    the arguments of the entry point
\* tools   ResearchAgent.tools (names)
\* memory  AgentWorkflow.memory: the checkpoint of the thread, << >> if none
\* state   the channel values of the running graph
\* trace   the nodes invoked in this turn, each with the workflow_status and
\*         the next_action of the state it returned and where the graph
\*         went from it
\* out     the elements the stream has yielded
\* result  << >>, or <<r>> when process_message returned r
\* locals  research's local variables across its suspension points: the
\*         planning reply, what each tool call handled so far did, and the
\*         synthesis reply
\* turns   (two concurrent turns) for each turn what pc, mode, call, state,
\*         trace, out and result are for the single turn, and the replies
\*         its collaborators have given it so far
\* store   (two concurrent turns) AgentWorkflow.memory, by thread id
\* hist    what the collaborators did in this turn: the outcome of each LLM
\*         call (for the supervisor's also the reply, stripped and
\*         lower-cased), the requested tool calls and what each did, and the
\*         failure of the graph run with its message; the LLM calls issued,
\*         in order; for each agent call the fields of the state it was
\*         given that differ after the call
TypeOK ==
    /\ pc \in {"idle", "end", "returned", "raised"} \cup Nodes \cup InResearch
    /\ mode \in {"none", "invoke", "stream"}
    /\ tools \in Registries
    /\ Len(trace) <= 3
    /\ Len(result) <= 1

Init ==
    /\ pc = "idle"
    /\ mode = "none"
    /\ call = [user_input |-> << >>, conversation_id |-> "c1", user_id |-> "u1"]
    /\ tools \in Registries
    /\ memory \in {<< >>, <<EarlierTurn>>}
    /\ state = initial_state(<< >>, "c1", "u1")
    /\ trace = << >>
    /\ out = << >>
    /\ result = << >>
    /\ hist = NoHistory
    /\ locals = NoLocals
    /\ turns = [t \in Turns |-> NoTurn(t)]
    /\ store = InitialStore

SavedMessages == IF memory = << >> THEN << >> ELSE memory[1].messages

\* entry of process_message / stream_process_message up to the first node:
\* the initial state is the input of the graph run on thread conversation_id
Enter(m, user_input, conversation_id, user_id) ==
    /\ pc = "idle"
    /\ mode' = m
    /\ call' = [user_input |-> user_input, conversation_id |-> conversation_id,
                user_id |-> user_id]
    /\ state' = WriteState(SavedMessages,
                           initial_state(user_input, conversation_id, user_id))
    /\ memory' = <<state'>>
    /\ pc' = "supervisor"
    /\ UNCHANGED <<tools, trace, out, result, hist, locals, cvars>>

process_message ==
    \E u \in UserInputs, c \in ConversationIds, id \in UserIds :
        Enter("invoke", u, c, id)

stream_process_message ==
    \E u \in UserInputs, c \in ConversationIds, id \in UserIds :
        Enter("stream", u, c, id)

\* one step of the graph: the node returned `returned`, its writes are
\* applied, the checkpoint is saved, the stream yields, the router picks `to`
Step(node, returned, to) ==
    /\ state' = WriteState(state.messages, returned)
    /\ memory' = <<state'>>
    /\ trace' = Append(trace, [node |-> node,
                                status |-> returned.workflow_status,
                                next_action |-> returned.next_action,
                                to |-> to])
    /\ out' = IF mode = "stream" THEN Append(out, NodeChunk(node, returned)) ELSE out
    /\ pc' = to
    /\ UNCHANGED <<mode, call, tools, result, cvars>>

SupervisorStep ==
    /\ pc = "supervisor"
    /\ \E llm \in SupervisorLLM :
          LET returned == _supervisor_node(state, llm)
              decision == lower(strip(llm.content))
          IN  /\ Step("supervisor", returned, _route_supervisor(returned))
              /\ hist' = [hist EXCEPT
                             !.sup = IF llm.kind = "raise" THEN "raise"
                                     ELSE IF decision \in {TokResearch, TokRespond}
                                          THEN "token" ELSE "unparseable",
                             !.decision = decision,
                             !.calls = Append(@, "supervisor"),
                             !.given = Append(@,
                                 [agent |-> "supervisor",
                                  modified |-> ModifiedFields(state,
                                      decide_action_given(state, llm))])]
              /\ UNCHANGED locals

IsRegistered(name) == \E t \in 1..Len(tools) : tools[t] = name

\* the research node returned
ResearchReturns(plan, outcomes, synth) ==
    LET returned == _research_node(state, plan, outcomes, synth, tools)
    IN  /\ Step("research", returned, _route_after_research(returned))
        /\ hist' = [hist EXCEPT !.plan = plan.kind,
                                !.tool_calls = plan.tool_calls,
                                !.outcomes = [i \in 1..Len(outcomes) |->
                                                 outcomes[i].kind],
                                !.synth = synth.kind,
                                !.calls = @ \o <<"planning">> \o
                                    (IF synth.kind = "none" THEN << >>
                                     ELSE <<"synthesis">>),
                                !.given = Append(@,
                                    [agent |-> "research",
                                     modified |-> ModifiedFields(state,
                                         research_given(state, plan, outcomes,
                                                        synth, tools))])]

\* research up to its first suspension point: the tool-planning call returns
\* a reply (with the requested tool calls) or raises
ResearchPlan ==
    /\ pc = "research"
    /\ \E plan \in PlanLLM :
          IF plan.kind = "raise"
          THEN /\ ResearchReturns(plan, << >>, NotCalled)
               /\ locals' = [locals EXCEPT !.response = plan]
          ELSE /\ locals' = [locals EXCEPT !.response = plan]
               /\ pc' = IF plan.tool_calls = << >> THEN "research_synth"
                        ELSE "research_tools"
               /\ UNCHANGED <<mode, call, tools, memory, state, trace, out,
                              result, hist, cvars>>

\* one iteration of the loop over response.tool_calls: a registered tool is
\* awaited and returns or raises, an unknown name matches no tool
ResearchTool ==
    /\ pc = "research_tools"
    /\ LET i == Len(locals.outcomes) + 1
           tool_call == locals.response.tool_calls[i]
       IN  /\ \E o \in ToolOutcomes \cup {NotCalled} :
                 /\ o = NotCalled <=> ~IsRegistered(tool_call.name)
                 /\ locals' = [locals EXCEPT !.outcomes = Append(@, o)]
           /\ pc' = IF i = Len(locals.response.tool_calls)
                    THEN "research_synth" ELSE "research_tools"
    /\ UNCHANGED <<mode, call, tools, memory, state, trace, out, result, hist,
                   cvars>>

\* the synthesis call returns or raises, and research returns
ResearchSynth ==
    /\ pc = "research_synth"
    /\ \E synth \in SynthesisLLM :
          /\ ResearchReturns(locals.response, locals.outcomes, synth)
          /\ locals' = [locals EXCEPT !.synthesis_response = synth]

RespondStep ==
    /\ pc = "respond"
    /\ \E llm \in RespondLLM \cup {NotCalled} :
          /\ llm = NotCalled <=> ~RespondCallsLLM(state)
          /\ Step("respond", _respond_node(state, llm), "end")
          /\ hist' = [hist EXCEPT !.respond = llm.kind,
                                  !.calls = IF llm = NotCalled THEN @
                                            ELSE Append(@, "respond")]
          /\ UNCHANGED locals

\* an exception escapes the graph run (the engine or its checkpointer fails)
GraphFailure ==
    /\ pc \in Nodes \cup {"end"}
    /\ \E e \in Errors :
          /\ hist' = [hist EXCEPT !.graph = "raise", !.error = e]
          /\ IF mode = "invoke"
             THEN LET r == process_message_except(e, call.conversation_id)
                  IN  /\ pc' = IF r.raised THEN "raised" ELSE "returned"
                      /\ result' = IF r.raised THEN << >> ELSE <<r.value>>
                      /\ out' = out
             ELSE LET r == stream_except(out, e)
                  IN  /\ pc' = IF r.raised THEN "raised" ELSE "returned"
                      /\ out' = r.out
                      /\ result' = result
    /\ UNCHANGED <<mode, call, tools, memory, state, trace, locals, cvars>>

\* the graph reached END: process_message builds its result, the stream ends
Finish ==
    /\ pc = "end"
    /\ IF mode = "invoke"
       THEN LET r == process_message_return(state, call.conversation_id)
            IN  /\ pc' = IF r.raised THEN "raised" ELSE "returned"
                /\ result' = IF r.raised THEN << >> ELSE <<r.value>>
       ELSE /\ pc' = "returned"
            /\ result' = result
    /\ UNCHANGED <<mode, call, tools, memory, state, trace, out, hist, locals,
                   cvars>>

Next ==
    \/ process_message
    \/ stream_process_message
    \/ SupervisorStep
    \/ ResearchPlan
    \/ ResearchTool
    \/ ResearchSynth
    \/ RespondStep
    \/ GraphFailure
    \/ Finish

Spec == Init /\ [][Next]_vars

\* every external call returns or raises, so a started turn is run on
FairSpec == Spec /\ WF_vars(Next)

-----------------------------------------------------------------------------
(* Two turns with distinct conversation ids, interleaved at their suspension *)
(* points: every step of a turn runs up to its next await.                   *)

ConcUserInputs == {Hello, LatestNews}

ConcSupervisorLLM == {Reply(TokResearch), Reply(TokRespond), Raise(<<"timeout">>)}

\* the planning reply requests no tool or tavily_search, which is registered
\* only when a key is set
ConcPlanLLM ==
    {[kind |-> "reply", tool_calls |-> << >>, error |-> << >>],
     [kind |-> "reply",
      tool_calls |-> <<[name |-> "tavily_search", args |-> <<"q">>]>>,
      error |-> << >>],
     [kind |-> "raise", tool_calls |-> << >>, error |-> <<"timeout">>]}

ConcToolOutcomes == {Reply(<<"found">>), Raise(<<"timeout">>)}

ConcSynthesisLLM == {Reply(<<"synthesis">>), Raise(<<"timeout">>)}

ConcRespondLLM == {Reply(<<"answer">>), Raise(<<"timeout">>)}

\* the checkpointed messages of a thread
Saved(thread) == IF store[thread] = << >> THEN << >> ELSE store[thread][1].messages

\* entry of process_message / stream_process_message in turn t
ConcEnter(t) ==
    /\ turns[t].pc = "idle"
    /\ \E m \in {"invoke", "stream"}, u \in ConcUserInputs :
          LET c == ConversationOf(t)
              thread == ThreadKey(c)
              st == ResumeThread(store[thread], initial_state(u, c, "u1"))
          IN  /\ turns' = [turns EXCEPT ![t] =
                     [@ EXCEPT !.pc = "supervisor", !.mode = m,
                               !.call = [user_input |-> u, conversation_id |-> c,
                                         user_id |-> "u1"],
                               !.state = st]]
              /\ store' = [store EXCEPT ![thread] = <<st>>]
    /\ UNCHANGED <<svars, tools>>

\* one step of the graph run of turn t
ConcStep(t, node, returned, to, replies) ==
    LET tr == turns[t]
        st == WriteState(tr.state.messages, returned)
    IN  /\ turns' = [turns EXCEPT ![t] =
               [tr EXCEPT !.state = st,
                          !.trace = Append(@, node),
                          !.out = IF tr.mode = "stream"
                                  THEN Append(@, NodeChunk(node, returned))
                                  ELSE @,
                          !.pc = to,
                          !.replies = replies]]
        /\ store' = [store EXCEPT ![ThreadKey(tr.call.conversation_id)] = <<st>>]
        /\ UNCHANGED <<svars, tools>>

ConcSupervisor(t) ==
    /\ turns[t].pc = "supervisor"
    /\ \E llm \in ConcSupervisorLLM :
          LET returned == _supervisor_node(turns[t].state, llm)
          IN  ConcStep(t, "supervisor", returned, _route_supervisor(returned),
                       [turns[t].replies EXCEPT !.sup = llm])

ConcResearchReturns(t, replies) ==
    LET returned == _research_node(turns[t].state, replies.plan,
                                   replies.outcomes, replies.synth, tools)
    IN  ConcStep(t, "research", returned, _route_after_research(returned),
                 replies)

ConcResearchPlan(t) ==
    /\ turns[t].pc = "research"
    /\ \E plan \in ConcPlanLLM :
          LET replies == [turns[t].replies EXCEPT !.plan = plan]
          IN  IF plan.kind = "raise"
              THEN ConcResearchReturns(t, replies)
              ELSE /\ turns' = [turns EXCEPT ![t] =
                          [@ EXCEPT !.replies = replies,
                                    !.pc = IF plan.tool_calls = << >>
                                           THEN "research_synth"
                                           ELSE "research_tools"]]
                   /\ UNCHANGED <<svars, tools, store>>

ConcResearchTool(t) ==
    /\ turns[t].pc = "research_tools"
    /\ LET replies == turns[t].replies
           i == Len(replies.outcomes) + 1
           tool_call == replies.plan.tool_calls[i]
       IN  \E o \in ConcToolOutcomes \cup {NotCalled} :
              /\ o = NotCalled <=> ~IsRegistered(tool_call.name)
              /\ turns' = [turns EXCEPT ![t] =
                     [@ EXCEPT !.replies = [replies EXCEPT
                                              !.outcomes = Append(@, o)],
                               !.pc = IF i = Len(replies.plan.tool_calls)
                                      THEN "research_synth"
                                      ELSE "research_tools"]]
    /\ UNCHANGED <<svars, tools, store>>

ConcResearchSynth(t) ==
    /\ turns[t].pc = "research_synth"
    /\ \E synth \in ConcSynthesisLLM :
          ConcResearchReturns(t, [turns[t].replies EXCEPT !.synth = synth])

ConcRespond(t) ==
    /\ turns[t].pc = "respond"
    /\ \E llm \in ConcRespondLLM \cup {NotCalled} :
          /\ llm = NotCalled <=> ~RespondCallsLLM(turns[t].state)
          /\ ConcStep(t, "respond", _respond_node(turns[t].state, llm), "end",
                      [turns[t].replies EXCEPT !.respond = llm])

\* the graph run of turn t fails
ConcGraphFailure(t) ==
    /\ turns[t].pc \in Nodes \cup {"end"}
    /\ LET tr == turns[t]
           e == <<"timeout">>
           r == process_message_except(e, tr.call.conversation_id)
           y == stream_except(tr.out, e)
       IN  turns' = [turns EXCEPT ![t] =
               [tr EXCEPT
                   !.replies = [@ EXCEPT !.graph = Raise(e)],
                   !.pc = IF tr.mode = "invoke"
                          THEN (IF r.raised THEN "raised" ELSE "returned")
                          ELSE (IF y.raised THEN "raised" ELSE "returned"),
                   !.result = IF tr.mode = "invoke" /\ ~r.raised
                              THEN <<r.value>> ELSE @,
                   !.out = IF tr.mode = "stream" THEN y.out ELSE @]]
    /\ UNCHANGED <<svars, tools, store>>

\* the graph run of turn t reached END
ConcFinish(t) ==
    /\ turns[t].pc = "end"
    /\ LET tr == turns[t]
           r == process_message_return(tr.state, tr.call.conversation_id)
       IN  turns' = [turns EXCEPT ![t] =
               [tr EXCEPT
                   !.pc = IF tr.mode = "invoke" /\ r.raised
                          THEN "raised" ELSE "returned",
                   !.result = IF tr.mode = "invoke" /\ ~r.raised
                              THEN <<r.value>> ELSE @]]
    /\ UNCHANGED <<svars, tools, store>>

ConcInit == Init /\ memory = << >>

ConcNext ==
    \/ \E t \in Turns : ConcEnter(t)
    \/ \E t \in Turns : ConcSupervisor(t)
    \/ \E t \in Turns : ConcResearchPlan(t)
    \/ \E t \in Turns : ConcResearchTool(t)
    \/ \E t \in Turns : ConcResearchSynth(t)
    \/ \E t \in Turns : ConcRespond(t)
    \/ \E t \in Turns : ConcGraphFailure(t)
    \/ \E t \in Turns : ConcFinish(t)

ConcSpec == ConcInit /\ [][ConcNext]_vars

-----------------------------------------------------------------------------
(* A turn on a thread that an earlier turn of the same conversation has      *)
(* left a checkpoint on.                                                     *)

\* the thread of conversation "c1" after an earlier turn that went through
\* research with one web_search call and answered with the synthesis
EarlierResearchTurn ==
    LET s0 == WriteState(<< >>, initial_state(LatestNews, "c1", "u1"))
        s1 == WriteState(s0.messages, _supervisor_node(s0, Reply(TokResearch)))
        s2 == WriteState(s1.messages,
                  _research_node(s1,
                      [kind |-> "reply",
                       tool_calls |-> <<[name |-> "web_search", args |-> <<"q">>]>>,
                       error |-> << >>],
                      <<Reply(<<"found">>)>>, Reply(<<"synthesis">>),
                      <<"web_search">>))
    IN  WriteState(s2.messages, _respond_node(s2, NotCalled))

\* the thread of conversation "c1" after an earlier turn whose research
\* failed at the planning call
EarlierErrorTurn ==
    LET s0 == WriteState(<< >>, initial_state(TVs, "c1", "u1"))
        s1 == WriteState(s0.messages, _supervisor_node(s0, Reply(TokResearch)))
    IN  WriteState(s1.messages,
            _research_node(s1,
                [kind |-> "raise", tool_calls |-> << >>, error |-> <<"timeout">>],
                << >>, NotCalled, <<"web_search">>))

EarlierTurns == {EarlierTurn, EarlierResearchTurn, EarlierErrorTurn}

\* the MemorySaver holds one of the earlier turns on thread "c1"
SecondTurnInit ==
    /\ pc = "idle"
    /\ mode = "none"
    /\ call = [user_input |-> << >>, conversation_id |-> "c1", user_id |-> "u1"]
    /\ tools \in Registries
    /\ memory = << >>
    /\ state = initial_state(<< >>, "c1", "u1")
    /\ trace = << >>
    /\ out = << >>
    /\ result = << >>
    /\ hist = NoHistory
    /\ locals = NoLocals
    /\ turns = [t \in Turns |-> NoTurn(t)]
    /\ \E earlier \in EarlierTurns :
          store = [c \in ThreadIds |-> IF c = "c1" THEN <<earlier>> ELSE << >>]

\* the next call for conversation "c1"
SecondTurnNext ==
    \/ ConcEnter(1)
    \/ ConcSupervisor(1)
    \/ ConcResearchPlan(1)
    \/ ConcResearchTool(1)
    \/ ConcResearchSynth(1)
    \/ ConcRespond(1)
    \/ ConcGraphFailure(1)
    \/ ConcFinish(1)

SecondTurnSpec == SecondTurnInit /\ [][SecondTurnNext]_vars

-----------------------------------------------------------------------------
(* Properties *)

ResultFields == {"response", "status", "tools_used", "research_data", "conversation_id"}

\* the call of the entry point is over
Over == pc \in {"returned", "raised"}

NodeSeq == [i \in 1..Len(trace) |-> trace[i].node]

\* C1: for every input and every pattern of LLM, tool or graph failure,
\* process_message returns (never raises) a record with the five fields
\* response, status, tools_used, research_data, conversation_id, and its
\* status is 'completed' or 'error'.
C1_ProcessMessageTotal ==
    (mode = "invoke" /\ Over) =>
        /\ pc = "returned"
        /\ Len(result) = 1
        /\ DOMAIN result[1] = ResultFields
        /\ result[1].status \in {"completed", "error"}

\* a turn with a failed supervisor LLM call that ran to END and returned
C1_Witness ==
    /\ mode = "invoke" /\ pc = "returned"
    /\ hist.sup = "raise" /\ hist.graph = "none"
    /\ Len(result) = 1

\* C2: a turn invokes at most 3 nodes, no node twice, and the graph then
\* reaches END (unless the graph run itself fails).
C2_TerminatesWithinThreeNodes ==
    /\ [](/\ Len(trace) <= 3
          /\ \A i, j \in 1..Len(trace) : trace[i].node = trace[j].node => i = j)
    /\ [](pc \in Nodes \cup InResearch => <>(pc = "end" \/ hist.graph = "raise"))

\* three nodes ran, with a failing tool call, and the graph is at END
C2_Witness ==
    /\ pc = "end"
    /\ NodeSeq = <<"supervisor", "research", "respond">>
    /\ \E i \in 1..Len(hist.outcomes) : hist.outcomes[i] = "raise"

\* C3: when the supervisor node returns a state with workflow_status ==
\* 'error', the workflow routes to end: neither research nor respond is
\* invoked in that turn.
C3_SupervisorErrorRoutesToEnd ==
    (Len(trace) >= 1 /\ trace[1].status = "error") =>
        /\ trace[1].to = "end"
        /\ Len(trace) = 1
        /\ pc \notin {"research", "respond"} \cup InResearch

\* C4: within a turn workflow_status only moves forward: once 'error' it is
\* not changed by a later node, and it never returns to 'in_progress'.
C4_StatusMonotonic ==
    [][(pc \in Nodes \cup InResearch) =>
         ( (state.workflow_status = "error" => state'.workflow_status = "error")
           /\ (state.workflow_status # "in_progress"
                  => state'.workflow_status # "in_progress") )]_vars

\* C5: decide_action is total: whatever the LLM client does (a token, any
\* other reply, an exception), the state the supervisor returns has
\* next_action 'research' or 'respond'.
C5_ClassificationTotal ==
    \A i \in 1..Len(trace) :
        trace[i].node = "supervisor" =>
            trace[i].next_action \in {"research", "respond"}

\* the LLM client raised and the keyword fallback chose research
C5_Witness ==
    /\ Len(trace) >= 1
    /\ hist.sup = "raise"
    /\ trace[1].next_action = "research"

\* no step of the turn other than the supervisor's classification call failed
NoOtherFailure ==
    /\ hist.plan # "raise"
    /\ hist.synth # "raise"
    /\ hist.respond # "raise"
    /\ hist.graph = "none"
    /\ \A i \in 1..Len(hist.outcomes) : hist.outcomes[i] # "raise"

\* C6: a classification failure is never surfaced as an error: if the
\* supervisor's LLM call fails or returns unparseable output and no other
\* step of the turn fails, process_message returns status 'completed', on
\* the respond route and on the research route alike.
C6_ClassificationFailureNotSurfaced ==
    (/\ mode = "invoke" /\ pc = "returned"
     /\ hist.sup \in {"raise", "unparseable"}
     /\ NoOtherFailure)
    => (Len(result) = 1 /\ result[1].status = "completed")

\* the requested calls that were executed (their tool is registered), in
\* request order, as positions in hist.tool_calls
ExecutedCalls ==
    SelectSeq([i \in 1..Len(hist.outcomes) |-> i],
              LAMBDA i : hist.outcomes[i] # "none")

ResearchError ==
    IF locals.response.kind = "raise" THEN locals.response.error
    ELSE locals.synthesis_response.error

\* C8: research failure is all-or-nothing for research_data: when a step of
\* research raises (the planning call, or the synthesis call after the tool
\* calls), the state research returns has workflow_status 'error', exactly
\* one appended assistant message 'Research failed: <message>' (non-empty),
\* and research_data still null.
C8_ResearchFailureAllOrNothing ==
    (hist.plan = "raise" \/ hist.synth = "raise")
    => LET n == Len(state.messages)
       IN  /\ trace[Len(trace)].node = "research"
           /\ trace[Len(trace)].status = "error"
           /\ state.workflow_status = "error"
           /\ state.research_data = NoData
           /\ n >= 2
           /\ state.messages[n].role = "assistant"
           /\ state.messages[n].content = <<"Research failed: ">> \o ResearchError
           /\ state.messages[n].content # << >>
           /\ state.messages[n - 1].role = "user"
           /\ state.messages[n - 1].content = call.user_input

\* the synthesis call raised after a tool call had succeeded
C8_Witness ==
    /\ hist.synth = "raise"
    /\ \E i \in 1..Len(hist.outcomes) : hist.outcomes[i] = "reply"
    /\ state.workflow_status = "error"

\* C9: when an exception escapes the graph run inside process_message, the
\* call does not raise and returns exactly {response: 'Workflow error:
\* <message>', status: 'error', tools_used: [], research_data: null,
\* conversation_id: the caller's}.
C9_WorkflowErrorRecord ==
    (mode = "invoke" /\ hist.graph = "raise")
    => /\ pc = "returned"
       /\ result = << [response        |-> <<"Workflow error: ">> \o hist.error,
                       status          |-> "error",
                       tools_used      |-> << >>,
                       research_data   |-> NoData,
                       conversation_id |-> call.conversation_id] >>

\* the graph run failed after research had used tools and stored its data
C9_Witness ==
    /\ mode = "invoke" /\ hist.graph = "raise" /\ pc = "returned"
    /\ state.tools_used # << >>
    /\ state.research_data # NoData

\* C10: if the graph run fails inside stream_process_message, the generator
\* does not raise: it yields one {error: message} element and ends; an error
\* element is the last element and at most one is ever yielded.
C10_StreamErrorElement ==
    (mode = "stream")
    => /\ pc # "raised"
       /\ \A i \in 1..Len(out) :
             out[i].key = "error" => (i = Len(out) /\ pc = "returned")
       /\ hist.graph = "raise" =>
             /\ pc = "returned"
             /\ Len(out) >= 1
             /\ out[Len(out)].key = "error"
             /\ out[Len(out)].value = hist.error

\* the graph run failed after two nodes had yielded their elements
C10_Witness ==
    /\ mode = "stream" /\ hist.graph = "raise"
    /\ Len(out) = 3
    /\ out[1].key = "supervisor" /\ out[2].key = "research"

\* the stream's elements that are not the error element
NodeElements == SelectSeq(out, LAMBDA c : c.key # "error")

\* C11: stream_process_message yields exactly one element per node
\* invocation, in execution order, keyed by the name of the node that ran
\* and carrying what that node returned: the first element is the
\* supervisor's and there are at most 3 node elements.
C11_StreamOneElementPerNode ==
    (mode = "stream")
    => /\ Len(NodeElements) = Len(trace)
       /\ Len(NodeElements) <= 3
       /\ \A i \in 1..Len(NodeElements) :
             /\ out[i] = NodeElements[i]
             /\ NodeElements[i].key = trace[i].node
             /\ NodeElements[i].key \in Nodes
             /\ NodeElements[i].value.workflow_status = trace[i].status
       /\ Len(NodeElements) >= 1 => NodeElements[1].key = "supervisor"
       /\ pc = "returned" => Len(out) \in {Len(trace), Len(trace) + 1}

\* a stream that ended after the three nodes had run
C11_Witness ==
    /\ mode = "stream" /\ pc = "returned" /\ hist.graph = "none"
    /\ Len(out) = 3
    /\ out[1].key = "supervisor" /\ out[2].key = "research"
    /\ out[3].key = "respond"

\* the lower-cased text contains one of the 16 keywords
HasKeyword(text) ==
    \E k \in 1..16 : Contains(research_keywords[k], lower(text))

\* C12: keyword fallback: when the LLM reply is neither token or the LLM
\* call fails, next_action is 'research' if and only if the lower-cased
\* user input contains one of the 16 keywords as a substring, and 'respond'
\* otherwise ("LATEST news" and "TVs" give research, "Hello" and "Tell me a
\* joke" give respond).
C12_KeywordFallback ==
    (Len(trace) >= 1 /\ hist.sup \in {"raise", "unparseable"})
    => /\ Len(research_keywords) = 16
       /\ trace[1].next_action = "research" <=> HasKeyword(call.user_input)
       /\ trace[1].next_action = "respond" <=> ~HasKeyword(call.user_input)
       /\ call.user_input \in {LatestNews, TVs} =>
             trace[1].next_action = "research"
       /\ call.user_input \in {Hello, TellMeAJoke} =>
             trace[1].next_action = "respond"

\* an unparseable reply, and an input whose only keyword ("vs") shows after
\* lower-casing
C12_Witness ==
    /\ Len(trace) >= 1
    /\ hist.sup = "unparseable"
    /\ call.user_input = TVs
    /\ trace[1].next_action = "research"

\* C13 as stated: decide_action on a user input that matches none of the
\* research keywords ("Tell me a joke") returns next_action = 'respond'.
C13_NoKeywordRespond ==
    (Len(trace) >= 1 /\ ~HasKeyword(call.user_input))
    => trace[1].next_action = "respond"

\* C13 amended: decide_action on a user input that matches none of the
\* research keywords returns next_action = 'respond' unless the LLM's reply,
\* stripped and lower-cased, is the token 'research'.
C13_NoKeywordRespondUnlessToken ==
    (/\ Len(trace) >= 1
     /\ ~HasKeyword(call.user_input)
     /\ ~(hist.sup = "token" /\ hist.decision = TokResearch))
    => trace[1].next_action = "respond"

\* "Tell me a joke" with a failed LLM call
C13_Witness ==
    /\ Len(trace) >= 1
    /\ call.user_input = TellMeAJoke
    /\ hist.sup = "raise"
    /\ trace[1].next_action = "respond"

\* process_message returned after the graph had run to END
RanToEnd == mode = "invoke" /\ pc = "returned" /\ hist.graph = "none"

\* C14: in every turn where the supervisor picks 'respond', the research
\* node is never invoked, no tool is executed, the result has tools_used =
\* [] and research_data null, and its status is 'completed' when the respond
\* node's direct LLM call succeeds.
C14_RespondRoute ==
    (RanToEnd /\ trace[1].next_action = "respond")
    => /\ \A i \in 1..Len(trace) : trace[i].node # "research"
       /\ hist.plan = "none" /\ hist.outcomes = << >>
       /\ Len(result) = 1
       /\ result[1].tools_used = << >>
       /\ result[1].research_data = NoData
       /\ hist.respond = "reply" => result[1].status = "completed"

FrameFields ==
    {"user_input", "conversation_id", "user_id", "session_data",
     "long_term_memory", "timestamp", "plan", "tool_results"}

\* C15: no node, on its success path or on a caught-exception path, changes
\* user_input, conversation_id, user_id, session_data, long_term_memory,
\* timestamp, plan or tool_results: in the state of a turn, after every node,
\* and in every state a node returned to the stream, each of them has its
\* value of the initial state.
C15_FrameFieldsUnchanged ==
    (pc # "idle")
    => LET initial == initial_state(call.user_input, call.conversation_id,
                                    call.user_id)
       IN  /\ \A f \in FrameFields : state[f] = initial[f]
           /\ \A i \in 1..Len(out) :
                 out[i].key \in Nodes =>
                     \A f \in FrameFields : out[i].value[f] = initial[f]

\* the supervisor and research both ran on their exception paths, research
\* after a tool call that had returned
C15_Witness ==
    /\ pc = "end"
    /\ NodeSeq = <<"supervisor", "research">>
    /\ hist.sup = "raise"
    /\ hist.synth = "raise"
    /\ \E i \in 1..Len(hist.outcomes) : hist.outcomes[i] = "reply"

\* C16: the response returned by process_message on a turn whose graph ran
\* to END is the content of the last message of the final state, and that
\* message is an assistant message appended in this turn, after the user's
\* own input message.
C16_ResponseIsLastMessage ==
    RanToEnd
    => LET n == Len(state.messages)
       IN  /\ Len(result) = 1
           /\ n >= 2
           /\ result[1].response = state.messages[n].content
           /\ state.messages[n].role = "assistant"
           /\ \E j \in 1..(n - 1) :
                 /\ state.messages[j].role = "user"
                 /\ state.messages[j].content = call.user_input
                 /\ \A k \in (j + 1)..n : state.messages[k].role = "assistant"

\* C17: when the research step fails, the respond node is not invoked and
\* process_message returns status 'error' with response 'Research failed:
\* <message>'; when research ends without error status, the respond node is
\* invoked next.
C17_ResearchFailureEndsTurn ==
    /\ (hist.plan = "raise" \/ hist.synth = "raise")
       => /\ pc # "respond"
          /\ \A i \in 1..Len(trace) : trace[i].node # "respond"
          /\ RanToEnd =>
                /\ Len(result) = 1
                /\ result[1].status = "error"
                /\ result[1].response = <<"Research failed: ">> \o ResearchError
    /\ (Len(trace) >= 2 /\ trace[2].node = "research"
                        /\ trace[2].status # "error")
       => /\ trace[2].to = "respond"
          /\ hist.graph = "none" =>
                \/ pc = "respond"
                \/ Len(trace) = 3 /\ trace[3].node = "respond"

\* the node that is running or about to run
ActiveNode == IF pc \in InResearch THEN "research" ELSE pc

\* C18: the nodes of one turn run one after another in the order
\* supervisor, then optionally research, then optionally respond: the
\* supervisor runs first and once, research at most once and only directly
\* after the supervisor, respond at most once and nothing after it; each
\* node starts where the one before it handed over, so that no two are
\* active at the same time.
C18_SequentialOrder ==
    /\ NodeSeq \in {<< >>, <<"supervisor">>,
                    <<"supervisor", "research">>,
                    <<"supervisor", "respond">>,
                    <<"supervisor", "research", "respond">>}
    /\ \A i \in 1..(Len(trace) - 1) : trace[i].to = trace[i + 1].node
    /\ (pc \in Nodes \cup InResearch) =>
          /\ trace = << >> => pc = "supervisor"
          /\ trace # << >> =>
                /\ trace[Len(trace)].to = ActiveNode
                /\ trace[Len(trace)].node # "respond"
                /\ \A i \in 1..Len(trace) : trace[i].node # ActiveNode
    /\ pc = "end" =>
          /\ trace # << >>
          /\ trace[Len(trace)].to = "end"

\* research is suspended at a tool call, after the supervisor and before
\* respond
C18_Witness ==
    /\ pc = "research_tools"
    /\ NodeSeq = <<"supervisor">>
    /\ Len(locals.outcomes) = 1

\* the names of the tools research invoked in this turn, in the order of
\* their invocation, failed invocations included
InvokedTools ==
    [k \in 1..Len(ExecutedCalls) |-> hist.tool_calls[ExecutedCalls[k]].name]

IsPrefix(a, b) == Len(a) <= Len(b) /\ SubSeq(b, 1, Len(a)) = a

\* C20: at the end of every turn, also one that ends in error, tools_used is
\* the sequence of the names of exactly the tools that research invoked in
\* that turn, in order, failed invocations included; from one node to the
\* next it only grows by appending.
C20_ToolsUsedIsInvokedTools ==
    /\ pc = "end" => state.tools_used = InvokedTools
    /\ \A i \in 1..(Len(out) - 1) :
          out[i + 1].key \in Nodes =>
              IsPrefix(out[i].value.tools_used, out[i + 1].value.tools_used)

\* What a turn does when it runs alone, from the checkpoint `saved` of its
\* thread and with the replies rp of its collaborators: the nodes of the
\* graph are applied one after the other; a failure of the graph run after
\* `ran` nodes ends the run there.
Alone(c, m, saved, rp, ran) ==
    LET s0 == WriteState(saved, initial_state(c.user_input, c.conversation_id,
                                              c.user_id))
        r1 == _supervisor_node(s0, rp.sup)
        s1 == WriteState(s0.messages, r1)
        to1 == _route_supervisor(r1)
        r2 == IF to1 = "research"
              THEN _research_node(s1, rp.plan, rp.outcomes, rp.synth, tools)
              ELSE _respond_node(s1, rp.respond)
        s2 == WriteState(s1.messages, r2)
        to2 == IF to1 = "research" THEN _route_after_research(r2) ELSE "end"
        r3 == _respond_node(s2, rp.respond)
        s3 == WriteState(s2.messages, r3)
        failed == rp.graph.kind = "raise"
        n == IF failed THEN ran
             ELSE IF to1 = "end" THEN 1 ELSE IF to2 = "end" THEN 2 ELSE 3
        nodes == SubSeq(<<"supervisor", to1, to2>>, 1, n)
        returned == SubSeq(<<r1, r2, r3>>, 1, n)
        final == IF n = 0 THEN s0 ELSE IF n = 1 THEN s1
                 ELSE IF n = 2 THEN s2 ELSE s3
        chunks == [i \in 1..n |-> NodeChunk(nodes[i], returned[i])]
    IN  [trace |-> nodes,
         out |-> IF m = "invoke" THEN << >>
                 ELSE IF failed THEN stream_except(chunks, rp.graph.error).out
                 ELSE chunks,
         result |-> IF m = "stream" THEN << >>
                    ELSE IF failed
                    THEN <<process_message_except(rp.graph.error,
                                                  c.conversation_id).value>>
                    ELSE <<process_message_return(final,
                                                  c.conversation_id).value>>,
         checkpoint |-> <<final>>]

\* C19: two turns with distinct conversation ids interleave at their
\* suspension points without affecting each other: the node sequence, the
\* streamed elements and the returned record of each turn are those of the
\* turn run alone with the same replies, and the checkpoint of a thread is
\* written only by the turn of that conversation id: it is the initial one
\* until that turn starts and that turn's latest state from then on.
C19_ConcurrentTurnsIndependent ==
    /\ store["default"] = InitialStore["default"]
    /\ \A t \in Turns :
          LET tr == turns[t]
              c == ConversationOf(t)
          IN  /\ tr.pc = "idle" => store[c] = InitialStore[c]
              /\ tr.pc # "idle" => store[c] = <<tr.state>>
              /\ tr.pc = "returned" =>
                    LET alone == Alone(tr.call, tr.mode,
                                       IF InitialStore[c] = << >> THEN << >>
                                       ELSE InitialStore[c][1].messages,
                                       tr.replies, Len(tr.trace))
                    IN  /\ tr.trace = alone.trace
                        /\ tr.out = alone.out
                        /\ tr.result = alone.result
                        /\ store[c] = alone.checkpoint

\* turn 2 has run its three nodes and returned while turn 1 is suspended at
\* the synthesis call, after a tool call
C19_Witness ==
    /\ turns[1].pc = "research_synth"
    /\ turns[1].replies.outcomes # << >>
    /\ turns[2].pc = "returned"
    /\ turns[2].mode = "stream"
    /\ turns[2].trace = <<"supervisor", "research", "respond">>
    /\ turns[2].call.user_input = LatestNews
    /\ store["c1"][1].messages[1].content = Hello
    /\ store["c2"][1].messages[1].content = LatestNews

\* the respond node was invoked
RespondRan == trace # << >> /\ trace[Len(trace)].node = "respond"

\* how many LLM calls of a kind the turn has issued
Calls(kind) == Len(SelectSeq(hist.calls, LAMBDA k : k = kind))

LastMessage == state.messages[Len(state.messages)]

\* C21: whenever the respond node runs and research_data.synthesis is absent
\* or empty (also research_data present with an empty synthesis), it issues
\* exactly one direct LLM call and appends that reply as an assistant
\* message.
C21_DirectCallWithoutSynthesis ==
    (/\ RespondRan
     /\ \/ state.research_data = NoData
        \/ state.research_data[1].synthesis = << >>)
    => /\ hist.respond \in {"reply", "raise"}
       /\ Calls("respond") = 1
       /\ hist.respond = "reply" =>
             /\ LastMessage.role = "assistant"
             /\ LastMessage.content = <<"answer">>

\* C22: when the respond node runs with research_data whose synthesis is
\* present and non-empty, it issues no LLM call and appends exactly that
\* synthesis as one assistant message, after the message research appended.
C22_SynthesisVerbatim ==
    (/\ RespondRan
     /\ state.research_data # NoData
     /\ state.research_data[1].synthesis # << >>)
    => LET n == Len(state.messages)
           synthesis == state.research_data[1].synthesis
       IN  /\ hist.respond = "none"
           /\ Calls("respond") = 0
           /\ n >= 3
           /\ state.messages[n].role = "assistant"
           /\ state.messages[n].content = synthesis
           /\ state.messages[n - 1].role = "assistant"
           /\ state.messages[n - 1].content = locals.synthesis_response.content
           /\ state.messages[n - 2].role = "user"
           /\ state.messages[n - 2].content = call.user_input
           /\ state.workflow_status = "completed"

\* respond ran after a research with two tool calls and a synthesis
C22_Witness ==
    /\ RespondRan
    /\ Len(hist.outcomes) = 2
    /\ state.research_data # NoData
    /\ state.research_data[1].synthesis = <<"synthesis">>
    /\ LastMessage.content = <<"synthesis">>

\* C23: if the respond step raises (its LLM call fails), the respond node
\* appends the assistant message 'Response generation error: <message>' and
\* sets workflow_status = 'error', the graph reaches END, and process_message
\* returns that text as response with status 'error'.
C23_RespondFailureReported ==
    (RespondRan /\ hist.respond = "raise")
    => /\ LastMessage.role = "assistant"
       /\ \E e \in Errors :
             LastMessage.content = <<"Response generation error: ">> \o e
       /\ state.workflow_status = "error"
       /\ trace[Len(trace)].to = "end"
       /\ RanToEnd =>
             /\ Len(result) = 1
             /\ result[1].status = "error"
             /\ result[1].response = LastMessage.content

\* C24: on every return of decide_action, on the normal path and on the
\* exception path, next_action is set, current_agent = 'supervisor' and
\* working_memory holds a supervisor reasoning note whose decision equals
\* next_action; on the exception path workflow_status is 'error' as well.
C24_SupervisorSideEffects ==
    (Len(trace) = 1 /\ trace[1].node = "supervisor")
    => /\ state.next_action \in {"research", "respond"}
       /\ state.current_agent = "supervisor"
       /\ Len(state.working_memory.supervisor_decision) = 1
       /\ state.working_memory.supervisor_decision[1].decision = state.next_action
       /\ hist.sup = "raise" => state.workflow_status = "error"

\* C25: when the LLM reply, trimmed and lower-cased, is exactly 'research'
\* or 'respond', decide_action sets next_action to that token whatever
\* keywords the user input contains, and leaves workflow_status unchanged.
C25_TokenDecides ==
    (Len(trace) >= 1 /\ hist.sup = "token")
    => /\ hist.decision \in {TokResearch, TokRespond}
       /\ hist.decision = TokResearch => trace[1].next_action = "research"
       /\ hist.decision = TokRespond => trace[1].next_action = "respond"
       /\ trace[1].status = "in_progress"

\* the reply " Respond\n" to an input with two keywords
C25_Witness ==
    /\ Len(trace) >= 1
    /\ call.user_input = LatestNews
    /\ hist.sup = "token" /\ hist.decision = TokRespond
    /\ trace[1].next_action = "respond"

\* C26: no LLM call is retried: in one turn the supervisor issues at most
\* one LLM call, research at most two (tool planning, then synthesis) and
\* respond at most one; a failed call is not issued again, and a turn issues
\* at most 3 LLM calls in all.
C26_NoLLMRetry ==
    /\ Calls("supervisor") <= 1
    /\ Calls("planning") <= 1
    /\ Calls("synthesis") <= 1
    /\ Calls("respond") <= 1
    /\ Len(hist.calls) <= 3
    /\ \A i \in 1..Len(hist.calls) :
          \A j \in (i + 1)..Len(hist.calls) : hist.calls[i] # hist.calls[j]
    /\ (hist.sup = "raise" /\ pc \in {"end", "returned"}) => Calls("supervisor") = 1
    /\ (hist.plan = "raise" /\ pc \in {"end", "returned"}) => Calls("planning") = 1
    /\ (hist.synth = "raise" /\ pc \in {"end", "returned"}) => Calls("synthesis") = 1
    /\ (hist.respond = "raise" /\ pc \in {"end", "returned"}) => Calls("respond") = 1

\* a turn of three LLM calls, the last of which failed, at END
C26_Witness ==
    /\ pc = "end"
    /\ hist.calls = <<"supervisor", "planning", "synthesis">>
    /\ hist.synth = "raise"

\* the role and content of each message
Texts(msgs) ==
    [i \in 1..Len(msgs) |-> [role |-> msgs[i].role, content |-> msgs[i].content]]

\* the position of the turn's user message in the transcript of the thread
TurnStart ==
    LET e == Len(EarlierTurn.messages)
    IN  IF /\ Len(state.messages) > e
           /\ Texts(SubSeq(state.messages, 1, e)) = Texts(EarlierTurn.messages)
        THEN e + 1 ELSE 1

\* the message the research node appended, and the one respond appended
ResearchMessage ==
    IF hist.plan = "raise" \/ hist.synth = "raise"
    THEN <<[role |-> "assistant", content |-> <<"Research failed: ">> \o ResearchError]>>
    ELSE <<[role |-> "assistant", content |-> locals.synthesis_response.content]>>

\* the last element the stream has yielded after a step
Yielded == out'[Len(out')]

\* C27: within a turn the messages only grow at the end: every node returns
\* messages that have its input's messages as a prefix, the user input stays
\* the first message of the turn, only assistant messages follow it, and
\* the appended messages are in the order of their nodes: none for the
\* supervisor, then research's one, then respond's.
C27_MessagesAppendOnly ==
    /\ [][(pc \in Nodes \cup InResearch)
            => /\ IsPrefix(Texts(state.messages), Texts(state'.messages))
               /\ (mode = "stream" /\ Len(out') = Len(out) + 1
                                   /\ Yielded.key \in Nodes)
                  => /\ IsPrefix(Texts(state.messages),
                                  Texts(Yielded.value.messages))
                     /\ Texts(Yielded.value.messages) = Texts(state'.messages)
                     /\ Yielded.key = "supervisor" =>
                           Len(state'.messages) = Len(state.messages)
                     /\ Yielded.key = "research" =>
                           Len(state'.messages) = Len(state.messages) + 1
                     /\ Yielded.key = "respond" =>
                           Len(state'.messages) <= Len(state.messages) + 1]_vars
    /\ []((pc # "idle")
           => LET j == TurnStart
                  n == Len(state.messages)
                  appended == Texts(SubSeq(state.messages, j + 1, n))
              IN  /\ state.messages[j].role = "user"
                  /\ state.messages[j].content = call.user_input
                  /\ \A k \in (j + 1)..n : state.messages[k].role = "assistant"
                  /\ (\A i \in 1..Len(trace) : trace[i].node # "research")
                        => n <= j + 1
                  /\ (\E i \in 1..Len(trace) : trace[i].node = "research")
                        => /\ n \in {j + 1, j + 2}
                           /\ appended[1] = ResearchMessage[1]
                           /\ n = j + 2 => RespondRan)

\* in a thread with an earlier turn, research and respond have each
\* appended their message and the stream has yielded both
C27_Witness ==
    /\ mode = "stream"
    /\ Len(out) = 3
    /\ TurnStart = 3
    /\ Len(state.messages) = 5
    /\ RespondRan

\* C28: current_agent is the name of the most recently active node: after
\* each node invocation, whether it succeeded or caught an exception,
\* current_agent equals the name of that node.
C28_CurrentAgentIsLastNode ==
    (trace # << >> /\ pc \in Nodes \cup InResearch \cup {"end"})
    => state.current_agent = trace[Len(trace)].node

\* C29: research_data is written at most once per turn and only by the
\* research node on its success path; the supervisor and respond nodes never
\* change it, so it is non-null only if research ran without raising.
C29_ResearchDataWrittenOnce ==
    /\ [][(state'.research_data # state.research_data)
            => /\ state.research_data = NoData
               /\ pc \in {"research", "research_synth"}
               /\ trace'[Len(trace')].node = "research"
               /\ hist'.plan = "reply" /\ hist'.synth = "reply"]_vars
    /\ []((state.research_data # NoData)
           => /\ Len(trace) >= 2 /\ trace[2].node = "research"
              /\ hist.plan = "reply" /\ hist.synth = "reply"
              /\ state.research_data[1].query = call.user_input
              /\ state.research_data[1].synthesis
                    = locals.synthesis_response.content)

\* respond ran on the data research had written
C29_Witness ==
    /\ RespondRan
    /\ state.research_data # NoData
    /\ Len(state.research_data[1].raw_results) = 2

\* the requested calls whose name is registered, as positions in
\* hist.tool_calls
RegisteredCalls ==
    SelectSeq([i \in 1..Len(hist.tool_calls) |-> i],
              LAMBDA i : IsRegistered(hist.tool_calls[i].name))

\* C30: when the model requests a tool whose name matches no registered
\* tool, that request is skipped without an entry in raw_results or
\* tools_used and without raising, and the other requested calls are still
\* processed: each request with a registered name is executed once and has
\* its one entry, in request order.
C30_UnknownToolSkipped ==
    (/\ hist.plan = "reply" /\ hist.synth = "reply"
     /\ \E i \in 1..Len(hist.tool_calls) : ~IsRegistered(hist.tool_calls[i].name))
    => /\ state.research_data # NoData
       /\ LET raw_results == state.research_data[1].raw_results
          IN  /\ Len(raw_results) = Len(RegisteredCalls)
              /\ \A k \in 1..Len(RegisteredCalls) :
                    LET i == RegisteredCalls[k]
                    IN  /\ raw_results[k].tool = hist.tool_calls[i].name
                        /\ hist.outcomes[i] \in {"reply", "raise"}
                        /\ raw_results[k].key =
                              (IF hist.outcomes[i] = "raise" THEN "error"
                               ELSE "result")
              /\ state.tools_used =
                    [k \in 1..Len(RegisteredCalls) |->
                        hist.tool_calls[RegisteredCalls[k]].name]
       /\ \A i \in 1..Len(hist.tool_calls) :
             ~IsRegistered(hist.tool_calls[i].name) => hist.outcomes[i] = "none"
       /\ trace[2].node = "research"
       /\ trace[2].status = trace[1].status

\* an unknown name was requested first, a registered one second
C30_Witness ==
    /\ hist.plan = "reply" /\ hist.synth = "reply"
    /\ Len(hist.tool_calls) = 2
    /\ hist.tool_calls[1].name = "calculator"
    /\ hist.tool_calls[2].name = "web_search"
    /\ state.tools_used = <<"web_search">>

\* the fields of AgentState
AgentStateFields ==
    {"messages", "user_input", "next_action", "research_data", "plan",
     "tools_used", "tool_results", "conversation_id", "user_id",
     "current_agent", "workflow_status", "working_memory", "long_term_memory",
     "timestamp", "session_data"}

\* C31: every node, on its success path and on every caught-exception path,
\* returns a complete state value with all fields of its input: the state
\* of the turn and every state a node returned to the stream has all 15
\* fields of AgentState.
C31_NodesReturnFullState ==
    (pc # "idle")
    => /\ DOMAIN state = AgentStateFields
       /\ \A i \in 1..Len(out) :
             out[i].key \in Nodes => DOMAIN out[i].value = AgentStateFields

\* the stream has yielded the states returned by the supervisor and by
\* research, both from their exception paths
C31_Witness ==
    /\ mode = "stream" /\ pc = "end"
    /\ Len(out) = 2
    /\ hist.sup = "raise" /\ hist.plan = "raise"

\* C32: process_message returns status 'completed' if and only if the
\* respond node was invoked in that turn and finished without raising.
C32_CompletedIffRespondSucceeded ==
    RanToEnd
    => /\ Len(result) = 1
       /\ result[1].status = "completed"
             <=> (RespondRan /\ hist.respond # "raise")

\* C34: decide_action and research do not modify the state value they are
\* given: after either call the input state's working_memory, messages and
\* tools_used (and every other field) are what they were before the call.
C34_AgentsLeaveInputUnchanged ==
    \A i \in 1..Len(hist.given) : hist.given[i].modified = {}


\* a stream element without the transcript it carries
WithoutMessages(chunk) ==
    IF chunk.key = "error" THEN chunk
    ELSE [chunk EXCEPT !.value = [@ EXCEPT !.messages = << >>]]

\* C33: every call of process_message or stream_process_message starts its
\* turn from next_action = None, research_data = None, tools_used = [] and
\* workflow_status = 'in_progress', whatever an earlier turn of the same
\* conversation left in the checkpoint store; the nodes invoked, what the
\* stream yields apart from the transcript, and the returned record are those
\* of the same call with the same replies on a thread without a checkpoint.
C33_TurnStartsFresh ==
    LET tr == turns[1]
    IN  /\ (tr.pc = "supervisor" /\ tr.trace = << >>) =>
              /\ tr.state.next_action = None
              /\ tr.state.research_data = NoData
              /\ tr.state.tools_used = << >>
              /\ tr.state.workflow_status = "in_progress"
              /\ store["c1"] = <<tr.state>>
        /\ tr.pc \in {"returned", "raised"} =>
              LET alone == Alone(tr.call, tr.mode, << >>, tr.replies,
                                 Len(tr.trace))
              IN  /\ tr.trace = alone.trace
                  /\ tr.result = alone.result
                  /\ Len(tr.out) = Len(alone.out)
                  /\ \A i \in 1..Len(tr.out) :
                        WithoutMessages(tr.out[i]) = WithoutMessages(alone.out[i])
                  /\ [tr.state EXCEPT !.messages = << >>]
                        = [alone.checkpoint[1] EXCEPT !.messages = << >>]

\* after an earlier turn that left research data and tools_used in the
\* checkpoint, a streamed turn was routed to respond, issued the direct LLM
\* call and completed with no research data; the transcript still starts
\* with the earlier turn's message
C33_Witness ==
    /\ turns[1].pc = "returned"
    /\ turns[1].mode = "stream"
    /\ turns[1].trace = <<"supervisor", "respond">>
    /\ turns[1].replies.respond.kind = "reply"
    /\ turns[1].state.workflow_status = "completed"
    /\ turns[1].state.research_data = NoData
    /\ turns[1].state.messages[1].content = LatestNews
    /\ Len(turns[1].state.messages) > 4

\* C35: for the same user input and the same LLM and tool replies,
\* stream_process_message yields elements for exactly the nodes that
\* process_message invokes, in the same order, and the workflow_status
\* carried by its last element equals the status that process_message
\* returns.
C35_StreamMatchesInvoke ==
    \A t \in Turns :
       LET tr == turns[t]
           c == ConversationOf(t)
       IN  (tr.mode = "stream" /\ tr.pc = "returned"
                /\ tr.replies.graph.kind # "raise") =>
              LET invoked == Alone(tr.call, "invoke",
                                   IF InitialStore[c] = << >> THEN << >>
                                   ELSE InitialStore[c][1].messages,
                                   tr.replies, Len(tr.trace))
              IN  /\ [i \in 1..Len(tr.out) |-> tr.out[i].key] = invoked.trace
                  /\ tr.out # << >>
                  /\ tr.out[Len(tr.out)].value.workflow_status
                        = invoked.result[1].status

\* the events POST /chat/stream has sent when the stream of the turn is over
Events == generate_stream(out, pc = "raised", hist.error)

\* C36: the event stream of POST /chat/stream ends with exactly one terminal
\* event: a 'complete' event when the workflow finished, or an 'error' event
\* when the workflow or the stream generation failed; an 'error' and a
\* 'complete' event are never both sent in one stream and no event follows
\* the terminal one.
C36_OneTerminalEvent ==
    (mode = "stream" /\ Over) =>
        /\ {i \in 1..Len(Events) : Events[i].type \in {"complete", "error"}}
              = {Len(Events)}
        /\ Events[Len(Events)].type = "complete" <=> hist.graph = "none"


=============================================================================
